---------------------------- MODULE Spec2Model ----------------------------
(***************************************************************************)
(* Model of the Slack Notifications MCP server (index.js, version 1.1.0).  *)
(*                                                                         *)
(* Text is modelled by TLA+ strings, character by character: substring,    *)
(* toLowerCase, includes, trim and the regular expressions of the build    *)
(* parser are operators over the characters of the string.  An optional    *)
(* value (undefined / null in the source) is the empty tuple None, a       *)
(* present value v is the one-element tuple Some(v).                       *)
(***************************************************************************)
EXTENDS Integers, Sequences, FiniteSets, TLC

None == << >>
Some(v) == << v >>
IsSome(o) == o # << >>
Get(o) == o[1]

Min(a, b) == IF a <= b THEN a ELSE b

(***************************************************************************)
(* JavaScript string primitives.                                           *)
(***************************************************************************)
CharAt(s, i) == SubSeq(s, i, i)

\* s.substring(0, n)
substring(s, n) == SubSeq(s, 1, Min(n, Len(s)))

UpperChars == <<"A","B","C","D","E","F","G","H","I","J","K","L","M",
                "N","O","P","Q","R","S","T","U","V","W","X","Y","Z">>
LowerChars == <<"a","b","c","d","e","f","g","h","i","j","k","l","m",
                "n","o","p","q","r","s","t","u","v","w","x","y","z">>
UpperSet == {UpperChars[i] : i \in 1..26}
LowerSet == {LowerChars[i] : i \in 1..26}
DigitChars == <<"0","1","2","3","4","5","6","7","8","9">>
DigitSet == {DigitChars[i] : i \in 1..10}
\* the characters \s matches
SpaceSet == {" ", "\t", "\n", "\r", "\f"}

LowerOfChar(c) ==
  IF c \in UpperSet
    THEN LowerChars[CHOOSE i \in 1..26 : UpperChars[i] = c]
    ELSE c

\* s.toLowerCase(), by halves so that the recursion stays shallow
RECURSIVE toLowerCase(_)
toLowerCase(s) ==
  IF Len(s) = 0 THEN s
  ELSE IF Len(s) = 1 THEN LowerOfChar(s)
  ELSE LET h == Len(s) \div 2
       IN toLowerCase(SubSeq(s, 1, h)) \o toLowerCase(SubSeq(s, h + 1, Len(s)))

\* s.includes(sub)
includes(s, sub) ==
  \E i \in 1..(Len(s) - Len(sub) + 1) : SubSeq(s, i, i + Len(sub) - 1) = sub

\* s.trim()
trim(s) ==
  LET keep == {i \in 1..Len(s) : CharAt(s, i) \notin SpaceSet}
  IN IF keep = {} THEN ""
     ELSE SubSeq(s, CHOOSE i \in keep : \A j \in keep : i <= j,
                    CHOOSE i \in keep : \A j \in keep : j <= i)

DigitValue(c) == (CHOOSE i \in 1..10 : DigitChars[i] = c) - 1

\* parseInt(d) for a string of decimal digits
RECURSIVE parseInt(_)
parseInt(d) ==
  IF Len(d) = 0 THEN 0
  ELSE parseInt(SubSeq(d, 1, Len(d) - 1)) * 10 + DigitValue(CharAt(d, Len(d)))


(***************************************************************************)
(* Regular-expression primitives.  Positions are 1-based; a position one   *)
(* past the end of the string is the end of the input.  Literals are       *)
(* matched against the lower-cased text, which is what the i flag does for *)
(* ASCII letters; captures are cut from the original text.                 *)
(***************************************************************************)
SetMin(S) == CHOOSE i \in S : \A j \in S : i <= j
SetMax(S) == CHOOSE i \in S : \A j \in S : j <= i

\* the position after the longest run of characters of class C that starts at p
RECURSIVE SkipClass(_, _, _)
SkipClass(s, p, C) ==
  IF p <= Len(s) /\ CharAt(s, p) \in C THEN SkipClass(s, p + 1, C) ELSE p

\* the literal lit stands at position p of s
LitAt(s, p, lit) ==
  p + Len(lit) - 1 <= Len(s) /\ SubSeq(s, p, p + Len(lit) - 1) = lit

\* (?:lit)? at p: the position after it
OptLit(s, p, lit) == IF LitAt(s, p, lit) THEN p + Len(lit) ELSE p

\* min(?:ute)?s? at p: the position after it, 0 when "min" does not stand at p
MinUnitEnd(s, p) ==
  IF LitAt(s, p, "min") THEN OptLit(s, OptLit(s, p + 3, "ute"), "s") ELSE 0

\* (\d+)\s*(unit)(?:\s*(\d+)...)? at p, the unit min(?:ute)?s? optional or
\* required; the trailing (?:sec(?:ond)?s?)? captures nothing and always matches
DurationTail(s, p, unitRequired) ==
  LET d == SkipClass(s, p, DigitSet)
      w == SkipClass(s, d, SpaceSet)
      u == MinUnitEnd(s, w)
      a == IF u = 0 THEN w ELSE u
      b == SkipClass(s, a, SpaceSet)
      c == SkipClass(s, b, DigitSet)
  IN IF d = p \/ (unitRequired /\ u = 0) THEN None
     ELSE Some([m1 |-> SubSeq(s, p, d - 1),
                m2 |-> IF c > b THEN Some(SubSeq(s, b, c - 1)) ELSE None])

\* keyword, then one or more separator characters, then DurationTail
KeywordDuration(s, i, kw, Seps) ==
  LET p == i + Len(kw)
      q == SkipClass(s, p, Seps)
  IN IF LitAt(s, i, kw) /\ q > p THEN DurationTail(s, q, FALSE) ELSE None

\* the match of duration pattern k (1..5 as listed in the source) at position i
DurationMatchAt(k, s, i) ==
  CASE k = 1 -> KeywordDuration(s, i, "duration", SpaceSet \cup {":"})
    [] k = 2 -> KeywordDuration(s, i, "took", SpaceSet)
    [] k = 3 -> LET p == i + 9
                    q == SkipClass(s, p, SpaceSet)
                IN IF LitAt(s, i, "completed") /\ q > p
                     THEN KeywordDuration(s, q, "in", SpaceSet)
                     ELSE None
    [] k = 4 -> DurationTail(s, i, TRUE)
    [] k = 5 -> LET d == SkipClass(s, i, DigitSet)
                    e == SkipClass(s, d + 1, DigitSet)
                IN IF d > i /\ LitAt(s, d, ":") /\ e > d + 1
                     THEN Some([m1 |-> SubSeq(s, i, d - 1),
                                m2 |-> Some(SubSeq(s, d + 1, e - 1))])
                     ELSE None

\* allText.match(patterns[k]): the leftmost match, None when there is none
DurationMatch(k, allText) ==
  LET s == toLowerCase(allText)
      hits == {i \in 1..Len(s) : IsSome(DurationMatchAt(k, s, i))}
  IN IF hits = {} THEN None ELSE DurationMatchAt(k, s, SetMin(hits))

NumDurationPatterns == 5

\* `${a.title || ''} ${a.text || ''}`
AttachmentLine(a) ==
  (IF IsSome(a.title) THEN Get(a.title) ELSE "") \o " " \o
  (IF IsSome(a.text) THEN Get(a.text) ELSE "")

\* list.map(a => `${a.title || ''} ${a.text || ''}`).join(' ')
RECURSIVE JoinAttachments(_)
JoinAttachments(list) ==
  IF Len(list) = 0 THEN ""
  ELSE IF Len(list) = 1 THEN AttachmentLine(list[1])
  ELSE AttachmentLine(list[1]) \o " " \o JoinAttachments(Tail(list))

\* text + ' ' + (attachments?.map(...).join(' ') || '')
AllText(text, attachments) ==
  text \o " " \o (IF IsSome(attachments) THEN JoinAttachments(Get(attachments)) ELSE "")

\* the record extractDuration builds from a match
DurationRecord(m) ==
  LET mins == parseInt(m.m1)
      secs == IF IsSome(m.m2) THEN parseInt(Get(m.m2)) ELSE 0
  IN [minutes |-> mins,
      seconds |-> secs,
      totalSeconds |-> mins * 60 + secs,
      formatted |-> IF mins > 0
                      THEN ToString(mins) \o "m " \o ToString(secs) \o "s"
                      ELSE ToString(secs) \o "s"]

\* A faulty variant: the patterns tried from the last to the first.
RECURSIVE DurationFromLast(_, _)
DurationFromLast(k, allText) ==
  IF k > NumDurationPatterns THEN None
  ELSE LET m == DurationMatch(NumDurationPatterns + 1 - k, allText)
       IN IF IsSome(m) THEN Some(DurationRecord(Get(m)))
          ELSE DurationFromLast(k + 1, allText)

\* for (const pattern of patterns) from pattern k on
RECURSIVE DurationFrom(_, _)
DurationFrom(k, allText) ==
  IF k > NumDurationPatterns THEN None
  ELSE LET m == DurationMatch(k, allText)
       IN IF IsSome(m) THEN Some(DurationRecord(Get(m)))
          ELSE DurationFrom(k + 1, allText)

extractDuration(text, attachments) == DurationFrom(1, AllText(text, attachments))

(***************************************************************************)
(* extractWorkflow.                                                        *)
(***************************************************************************)
\* the characters [^\n\r,] excludes
NameStop == {"\n", "\r", ","}
\* [A-Z] and [a-zA-Z0-9-] under the i flag
WordFirst == UpperSet \cup LowerSet
WordRest == UpperSet \cup LowerSet \cup DigitSet \cup {"-"}

\* the position of the first character of class C at or after p, else the end
RECURSIVE SkipUntil(_, _, _)
SkipUntil(s, p, C) ==
  IF p <= Len(s) /\ CharAt(s, p) \notin C THEN SkipUntil(s, p + 1, C) ELSE p

\* A faulty variant: the name ends at the first space as well.
WorkflowNameAtFirstWord(s, i) ==
  LET p == i + 8
      q == SkipClass(s, p, SpaceSet \cup {":"})
      starts == {j \in (p + 1)..q : j <= Len(s) /\ CharAt(s, j) \notin NameStop}
  IN IF LitAt(s, i, "workflow") /\ q > p /\ starts # {}
       THEN Some(<<SetMax(starts),
                   SkipUntil(s, SetMax(starts), NameStop \cup SpaceSet) - 1>>)
       ELSE None

\* /workflow[:\s]+([^\n\r,]+)/i at position i: the capture's <<first, last>>.
\* [:\s]+ takes every separator; when no name character follows, it gives
\* separators back, one at a time, until one of them can start the capture.
WorkflowNameAt(s, i) ==
  LET p == i + 8
      q == SkipClass(s, p, SpaceSet \cup {":"})
      starts == {j \in (p + 1)..q : j <= Len(s) /\ CharAt(s, j) \notin NameStop}
  IN IF LitAt(s, i, "workflow") /\ q > p /\ starts # {}
       THEN Some(<<SetMax(starts), SkipUntil(s, SetMax(starts), NameStop) - 1>>)
       ELSE None

\* [A-Z][a-zA-Z0-9-]+ at p: the position after it, 0 when no word stands at p
WordEnd(s, p) ==
  IF p <= Len(s) /\ CharAt(s, p) \in WordFirst
    THEN LET e == SkipClass(s, p + 1, WordRest)
         IN IF e > p + 1 THEN e ELSE 0
    ELSE 0

\* word(?:\s+word)* from p, followed by \s+(?:build|workflow): the position
\* after the capture with the most words, 0 when there is no match
RECURSIVE WordChainEnd(_, _)
WordChainEnd(s, p) ==
  LET e == WordEnd(s, p)
      w == SkipClass(s, e, SpaceSet)
      more == IF w > e THEN WordChainEnd(s, w) ELSE 0
  IN IF e = 0 THEN 0
     ELSE IF more # 0 THEN more
     ELSE IF w > e /\ (LitAt(s, w, "build") \/ LitAt(s, w, "workflow")) THEN e
     ELSE 0

\* allText.match(patterns[k]) of extractWorkflow: Some(match[1]) or None
WorkflowMatch(k, allText) ==
  LET s == toLowerCase(allText)
  IN IF k = 1
       THEN LET hits == {i \in 1..Len(s) : IsSome(WorkflowNameAt(s, i))}
                c == Get(WorkflowNameAt(s, SetMin(hits)))
            IN IF hits = {} THEN None ELSE Some(SubSeq(allText, c[1], c[2]))
       ELSE LET e == WordChainEnd(s, 1)
            IN IF e = 0 THEN None ELSE Some(SubSeq(allText, 1, e - 1))

TitleMaxLen == 50

\* if (attachments && attachments.length > 0) { const title = attachments[0].title; ... }
TitleFallback(attachments) ==
  IF IsSome(attachments) /\ Len(Get(attachments)) > 0
    THEN LET title == Get(attachments)[1].title
         IN IF IsSome(title) /\ Len(Get(title)) > 0 /\ Len(Get(title)) < TitleMaxLen
              THEN title
              ELSE None
    ELSE None

extractWorkflow(text, attachments) ==
  LET allText == AllText(text, attachments)
      m1 == WorkflowMatch(1, allText)
      m2 == WorkflowMatch(2, allText)
  IN IF IsSome(m1) THEN Some(trim(Get(m1)))
     ELSE IF IsSome(m2) THEN Some(trim(Get(m2)))
     ELSE TitleFallback(attachments)

(***************************************************************************)
(* The message normalizer: result.messages.map((msg) => {...}).            *)
(* A raw message is [ts, text, attachments]; ts is [sec, micro], the       *)
(* decimal string "sec.micro" of the messaging service.                    *)
(***************************************************************************)
\* A faulty variant: the running keywords looked for before the failed ones.
classifyStatusRunningFirst(text) ==
  LET t == toLowerCase(text)
  IN IF includes(t, "succeeded") \/ includes(t, "success") THEN "succeeded"
     ELSE IF includes(t, "started") \/ includes(t, "running") THEN "running"
     ELSE IF includes(t, "failed") \/ includes(t, "failure") THEN "failed"
     ELSE IF includes(t, "cancelled") \/ includes(t, "canceled") THEN "cancelled"
     ELSE "unknown"

\* the status keyword cascade on the message body
classifyStatus(text) ==
  LET t == toLowerCase(text)
  IN IF includes(t, "succeeded") \/ includes(t, "success") THEN "succeeded"
     ELSE IF includes(t, "failed") \/ includes(t, "failure") THEN "failed"
     ELSE IF includes(t, "started") \/ includes(t, "running") THEN "running"
     ELSE IF includes(t, "cancelled") \/ includes(t, "canceled") THEN "cancelled"
     ELSE "unknown"

\* new Date(parseFloat(ts) * 1000).toISOString(): the instant, in milliseconds,
\* that the ISO-8601 string denotes; the microseconds below it are dropped
toISOString(ts) == ts.sec * 1000 + (ts.micro \div 1000)

TextMaxLen == 500
AttachmentTextMaxLen == 200

\* A faulty variant: the attachment's text passed through whole.
summarizeAttachmentWhole(a) == [title |-> a.title, text |-> a.text, color |-> a.color]

\* a => ({ title: a.title, text: a.text?.substring(0, 200), color: a.color })
summarizeAttachment(a) ==
  [title |-> a.title,
   text |-> IF IsSome(a.text) THEN Some(substring(Get(a.text), AttachmentTextMaxLen))
            ELSE None,
   color |-> a.color]

\* const text = msg.text || ""
BodyOf(msg) == IF IsSome(msg.text) THEN Get(msg.text) ELSE ""

\* A faulty variant: the status read off the body and the attachments together.
buildMessageCombinedStatus(msg) ==
  LET text == BodyOf(msg)
  IN [timestamp |-> toISOString(msg.ts),
      status |-> classifyStatus(AllText(text, msg.attachments)),
      workflow |-> extractWorkflow(text, msg.attachments),
      duration |-> extractDuration(text, msg.attachments),
      text |-> substring(text, TextMaxLen),
      attachments |-> IF IsSome(msg.attachments)
                        THEN Some([i \in 1..Len(Get(msg.attachments)) |->
                                     summarizeAttachment(Get(msg.attachments)[i])])
                        ELSE None]

buildMessage(msg) ==
  LET text == BodyOf(msg)
  IN [timestamp |-> toISOString(msg.ts),
      status |-> classifyStatus(text),
      workflow |-> extractWorkflow(text, msg.attachments),
      duration |-> extractDuration(text, msg.attachments),
      text |-> substring(text, TextMaxLen),
      attachments |-> IF IsSome(msg.attachments)
                        THEN Some([i \in 1..Len(Get(msg.attachments)) |->
                                     summarizeAttachment(Get(msg.attachments)[i])])
                        ELSE None]

(***************************************************************************)
(* The tool dispatcher.  A tool's arguments are the record                 *)
(* [limit, workflow, channel_id, query, text] of optional values; the      *)
(* envelope { content: [{ type: "text", text }], isError } is the record   *)
(* [isError, text], where text is Plain(s) for a literal or template       *)
(* string and Json(v) for JSON.stringify(v, null, 2) of the value v.       *)
(***************************************************************************)
VARIABLES
  slackToken,      \* process.env.SLACK_BOT_TOKEN
  buildChannelId,  \* process.env.SLACK_BUILD_CHANNEL_ID
  proc,            \* "starting", "serving" or "exited"
  pc,              \* per invocation slot: "idle", "awaiting" or "responded"
  request,         \* per slot: the invocation's [name, args]
  call,            \* per slot: the collaborator call the invocation issued
  reply,           \* per slot: the collaborator's outcome of that call
  response,        \* per slot: the envelope the dispatcher returned
  failures,        \* invocations answered from the catch block so far
  posted,          \* what chat.postMessage has posted, in order
  listed,          \* the answer to the last tools/list request
  input,           \* parser harness: the raw message under test
  parsed           \* parser harness: its ParsedBuild

vars == <<slackToken, buildChannelId, proc, pc, request, call, reply, response,
          failures, posted, listed, input, parsed>>

serverVars == <<slackToken, buildChannelId, proc, pc, request, call, reply,
                response, failures, posted, listed>>

\* the tools array of the ListToolsRequestSchema handler, by name
ToolCatalogue ==
  <<"check_build_status", "get_channel_messages", "search_messages",
    "send_message", "list_channels">>

Plain(s) == [plain |-> s]
Json(v) == [json |-> v]
Envelope(text) == [isError |-> FALSE, text |-> text]
ErrorEnvelope(text) == [isError |-> TRUE, text |-> text]

Return(envelope) == [kind |-> "return", envelope |-> envelope]
Await(c) == [kind |-> "await", call |-> c]
Throw(error) == [kind |-> "throw", error |-> error]

DefaultBuildLimit == 5
BuildLimitMax == 20
OverFetchFactor == 4
OverFetchMax == 100
DefaultMessageLimit == 10
MessageLimitMax == 100
DefaultChannelLimit == 50
ChannelLimitMax == 200
TopicMaxLen == 100

\* args?.limit || d
LimitOr(args, d) ==
  IF IsSome(args.limit) /\ Get(args.limit) # 0 THEN Get(args.limit) ELSE d

\* a string that is neither undefined nor empty
Truthy(o) == IsSome(o) /\ Len(Get(o)) > 0

\* args?.channel_id || buildChannelId
ChannelOf(args, channel) == IF Truthy(args.channel_id) THEN args.channel_id ELSE channel

\* const workflowFilter = args?.workflow?.toLowerCase()
workflowFilter(args) ==
  IF IsSome(args.workflow) THEN Some(toLowerCase(Get(args.workflow))) ELSE None

\* A faulty variant: the limit clamped before it is multiplied.
fetchLimitClampedFirst(args) ==
  IF Truthy(workflowFilter(args))
    THEN Min(Min(LimitOr(args, DefaultBuildLimit), BuildLimitMax) * OverFetchFactor,
             OverFetchMax)
    ELSE Min(LimitOr(args, DefaultBuildLimit), BuildLimitMax)

fetchLimit(args) ==
  IF Truthy(workflowFilter(args))
    THEN Min(LimitOr(args, DefaultBuildLimit) * OverFetchFactor, OverFetchMax)
    ELSE Min(LimitOr(args, DefaultBuildLimit), BuildLimitMax)

\* A faulty variant: the limit not clamped.
resultLimitUnclamped(args) == LimitOr(args, DefaultBuildLimit)

\* const limit = Math.min(args?.limit || 5, 20)
resultLimit(args) == Min(LimitOr(args, DefaultBuildLimit), BuildLimitMax)

(***************************************************************************)
(* The messaging service: the build channel's messages, newest first.      *)
(***************************************************************************)
\* every channel length up to this one is tried
ShortHistLen == 7
\* messages in a channel, at most
MaxHistLen == 22
\* every limit up to this one is requested
ShortLimit == 3
\* the largest limit a check_build_status request names
MaxLimit == 26
\* collaborator calls that fail in one run, at most
MaxFailures == 1
\* a client stops sending once this many messages are posted
MaxPosts == 1

\* a string of n characters that no keyword or pattern reads
RECURSIVE Pad(_)
Pad(n) ==
  IF n = 0 THEN ""
  ELSE IF n % 2 = 0 THEN Pad(n \div 2) \o Pad(n \div 2)
  ELSE "." \o Pad(n - 1)

Attachment(title, text, color) == [title |-> title, text |-> text, color |-> color]

\* the kinds of message in the channel, without their timestamps
MessagePool ==
  << [text |-> Some("Nutri-E build succeeded"), attachments |-> None,
      user |-> None, bot_id |-> Some("B0CI")],
     [text |-> Some("Build failed"),
      attachments |-> Some(<<Attachment(Some("Cuti-E-Admin"),
                                        Some("took 3 min 20 sec"), Some("danger"))>>),
      user |-> None, bot_id |-> Some("B0CI")],
     [text |-> Some("workflow: Nutri"),
      attachments |-> Some(<<Attachment(Some("E"), None, None)>>),
      user |-> None, bot_id |-> Some("B0CI")],
     [text |-> Some("Deploy started"), attachments |-> None,
      user |-> Some("U0DEV"), bot_id |-> None],
     [text |-> None,
      attachments |-> Some(<<Attachment(None, Some("Nutri-E archive"), None)>>),
      user |-> None, bot_id |-> Some("B0CI")],
     [text |-> Some(Pad(TextMaxLen) \o " Nutri-E canceled"), attachments |-> None,
      user |-> None, bot_id |-> Some("B0CI")] >>

PoolSize == Len(MessagePool)

BaseSec == 1700000

\* the i-th newest message of the channel, of kind k
Stamp(k, i) ==
  [ts |-> [sec |-> BaseSec - i, micro |-> 123456],
   text |-> MessagePool[k].text,
   attachments |-> MessagePool[k].attachments,
   user |-> MessagePool[k].user,
   bot_id |-> MessagePool[k].bot_id]

\* a channel of n messages whose kinds repeat with period c
History(n, c) == [i \in 1..n |-> Stamp(((i - 1) % c) + 1, i)]

HistoryLengths == (0..ShortHistLen) \cup ((MaxHistLen - 1)..MaxHistLen)
Histories == {History(n, c) : n \in HistoryLengths, c \in {1, PoolSize}}

SourceMessages == {Stamp(k, i) : k \in 1..PoolSize, i \in 1..MaxHistLen}

\* buildMessage on every message the source can deliver
Normalized == [m \in SourceMessages |-> buildMessage(m)]

\* the workflow arguments a client sends, and their lower-cased forms
Filters == {None, Some(""), Some("nutri"), Some("Nutri E"), Some("zzz")}
FilterWords == {toLowerCase(Get(w)) : w \in Filters \ {None}}

\* A faulty variant: messages of unknown status left out.
buildMessagesKnownOnly(messages) ==
  LET all == [i \in 1..Len(messages) |-> Normalized[messages[i]]]
  IN SelectSeq(all, LAMBDA b : b.status # "unknown")

\* let buildMessages = result.messages.map((msg) => {...})
buildMessages(messages) == [i \in 1..Len(messages) |-> Normalized[messages[i]]]

\* A faulty variant: the filter looked for in the text and attachments only.
matchesWorkflowTextOnly(b, f) ==
  LET text == toLowerCase(b.text)
      attachmentText == IF IsSome(b.attachments)
                          THEN toLowerCase(JoinAttachments(Get(b.attachments)))
                          ELSE ""
  IN includes(text, f) \/ includes(attachmentText, f)

\* the predicate of buildMessages.filter((msg) => {...}), f the lower-cased filter
matchesWorkflow(b, f) ==
  LET workflow == IF IsSome(b.workflow) THEN toLowerCase(Get(b.workflow)) ELSE ""
      text == toLowerCase(b.text)
      attachmentText == IF IsSome(b.attachments)
                          THEN toLowerCase(JoinAttachments(Get(b.attachments)))
                          ELSE ""
  IN includes(workflow, f) \/ includes(text, f) \/ includes(attachmentText, f)

\* matchesWorkflow on every ParsedBuild and every filter of the model
Matching ==
  [b \in {Normalized[m] : m \in SourceMessages}, f \in FilterWords |->
     matchesWorkflow(b, f)]

\* if (workflowFilter) { buildMessages = buildMessages.filter(...) }
applyWorkflowFilter(builds, args) ==
  LET f == workflowFilter(args)
  IN IF Truthy(f)
       THEN SelectSeq(builds, LAMBDA b : Matching[b, Get(f)])
       ELSE builds

\* list.slice(0, n)
slice(list, n) == SubSeq(list, 1, Min(n, Len(list)))

(***************************************************************************)
(* Each case of the switch, cut at its await: XBegin is the code up to the *)
(* collaborator call (or to an early return), XFinish the code after the   *)
(* call's outcome o, which is [ok |-> TRUE, result] when the promise       *)
(* resolves and [ok |-> FALSE, error] when it rejects.                     *)
(***************************************************************************)
NoChannelText == "Error: No channel_id provided and SLACK_BUILD_CHANNEL_ID not configured."

checkBuildStatusBegin(args, channel) ==
  IF ~Truthy(channel)
    THEN Return(Envelope(Plain(
      "Error: SLACK_BUILD_CHANNEL_ID not configured. Please set it in your MCP config.")))
    ELSE Await([method |-> "conversations.history",
                channel |-> Get(channel), limit |-> fetchLimit(args)])

\* JSON.stringify({ builds, filter, count }, null, 2) in the envelope
buildsResponse(builds, args) ==
  Return(Envelope(Json(
    [builds |-> builds,
     filter |-> IF Truthy(workflowFilter(args))
                  THEN Some([workflow |-> Get(args.workflow)])
                  ELSE None,
     count |-> Len(builds)])))

\* A faulty variant: the notice also when the filter leaves no build.
checkBuildStatusFinishNoticeWhenEmpty(args, o) ==
  IF ~o.ok THEN Throw(o.error)
  ELSE IF ~IsSome(o.result.messages)
          \/ Len(applyWorkflowFilter(buildMessages(Get(o.result.messages)), args)) = 0
    THEN Return(Envelope(Plain("No build messages found in the channel.")))
  ELSE buildsResponse(
         slice(applyWorkflowFilter(buildMessages(Get(o.result.messages)), args),
               resultLimit(args)),
         args)

checkBuildStatusFinish(args, o) ==
  IF ~o.ok THEN Throw(o.error)
  ELSE IF ~IsSome(o.result.messages) \/ Len(Get(o.result.messages)) = 0
    THEN Return(Envelope(Plain("No build messages found in the channel.")))
  ELSE buildsResponse(
         slice(applyWorkflowFilter(buildMessages(Get(o.result.messages)), args),
               resultLimit(args)),
         args)

getChannelMessagesBegin(args, channel) ==
  IF ~Truthy(ChannelOf(args, channel))
    THEN Return(Envelope(Plain(NoChannelText)))
    ELSE Await([method |-> "conversations.history",
                channel |-> Get(ChannelOf(args, channel)),
                limit |-> Min(LimitOr(args, DefaultMessageLimit), MessageLimitMax)])

getChannelMessagesFinish(args, o) ==
  IF ~o.ok THEN Throw(o.error)
  ELSE LET raw == IF IsSome(o.result.messages) THEN Get(o.result.messages) ELSE << >>
       IN Return(Envelope(Json(
            [messages |-> [i \in 1..Len(raw) |->
               [timestamp |-> toISOString(raw[i].ts),
                user |-> raw[i].user,
                text |-> IF IsSome(raw[i].text)
                           THEN Some(substring(Get(raw[i].text), TextMaxLen))
                           ELSE None,
                bot_id |-> raw[i].bot_id]]])))

searchMessagesBegin(args) ==
  IF ~Truthy(args.query)
    THEN Return(Envelope(Plain("Error: query parameter is required")))
    ELSE Await([method |-> "search.messages",
                query |-> Get(args.query),
                count |-> Min(LimitOr(args, DefaultMessageLimit), MessageLimitMax),
                sort |-> "timestamp", sort_dir |-> "desc"])

\* A faulty variant: no inner try/catch, every failure is thrown on.
searchMessagesFinishNoCatch(args, o) ==
  IF ~o.ok THEN Throw(o.error)
  ELSE LET found == IF IsSome(o.result.messages) /\ IsSome(Get(o.result.messages).matches)
                      THEN Get(Get(o.result.messages).matches) ELSE << >>
       IN Return(Envelope(Json(
            [results |-> [i \in 1..Len(found) |->
               [timestamp |-> toISOString(found[i].ts),
                channel |-> IF IsSome(found[i].channel)
                              THEN Get(found[i].channel).name ELSE None,
                text |-> IF IsSome(found[i].text)
                           THEN Some(substring(Get(found[i].text), TextMaxLen))
                           ELSE None,
                user |-> found[i].user]],
             total |-> IF IsSome(o.result.messages) /\ IsSome(Get(o.result.messages).total)
                         THEN Get(Get(o.result.messages).total) ELSE 0])))

\* the inner try/catch: a missing_scope failure is answered in place, any
\* other one is thrown again
searchMessagesFinish(args, o) ==
  IF ~o.ok
    THEN IF IsSome(o.error.data) /\ Get(o.error.data).error = "missing_scope"
           THEN Return(Envelope(Plain(
             "Error: Bot token missing 'search:read' scope. Add it in your Slack App settings.")))
           ELSE Throw(o.error)
  ELSE LET found == IF IsSome(o.result.messages) /\ IsSome(Get(o.result.messages).matches)
                      THEN Get(Get(o.result.messages).matches) ELSE << >>
       IN Return(Envelope(Json(
            [results |-> [i \in 1..Len(found) |->
               [timestamp |-> toISOString(found[i].ts),
                channel |-> IF IsSome(found[i].channel)
                              THEN Get(found[i].channel).name ELSE None,
                text |-> IF IsSome(found[i].text)
                           THEN Some(substring(Get(found[i].text), TextMaxLen))
                           ELSE None,
                user |-> found[i].user]],
             total |-> IF IsSome(o.result.messages) /\ IsSome(Get(o.result.messages).total)
                         THEN Get(Get(o.result.messages).total) ELSE 0])))

\* A faulty variant: the text not checked before the message is posted.
sendMessageBeginUnchecked(args, channel) ==
  IF ~Truthy(ChannelOf(args, channel))
    THEN Return(Envelope(Plain(NoChannelText)))
  ELSE Await([method |-> "chat.postMessage",
              channel |-> Get(ChannelOf(args, channel)),
              text |-> IF IsSome(args.text) THEN Get(args.text) ELSE "undefined"])

sendMessageBegin(args, channel) ==
  IF ~Truthy(ChannelOf(args, channel))
    THEN Return(Envelope(Plain(NoChannelText)))
  ELSE IF ~Truthy(args.text)
    THEN Return(Envelope(Plain("Error: text parameter is required")))
  ELSE Await([method |-> "chat.postMessage",
              channel |-> Get(ChannelOf(args, channel)), text |-> Get(args.text)])

sendMessageFinish(args, o) ==
  IF ~o.ok THEN Throw(o.error)
  ELSE Return(Envelope(Json(
         [success |-> o.result.ok, timestamp |-> o.result.ts,
          channel |-> o.result.channel])))

\* A faulty variant: the limit passed on as requested.
listChannelsBeginUnclamped(args) ==
  Await([method |-> "conversations.list",
         types |-> "public_channel,private_channel",
         limit |-> LimitOr(args, DefaultChannelLimit)])

listChannelsBegin(args) ==
  Await([method |-> "conversations.list",
         types |-> "public_channel,private_channel",
         limit |-> Min(LimitOr(args, DefaultChannelLimit), ChannelLimitMax)])

listChannelsFinish(args, o) ==
  IF ~o.ok THEN Throw(o.error)
  ELSE LET chans == IF IsSome(o.result.channels) THEN Get(o.result.channels) ELSE << >>
       IN Return(Envelope(Json(
            [channels |-> [i \in 1..Len(chans) |->
               [id |-> chans[i].id, name |-> chans[i].name,
                is_private |-> chans[i].is_private, is_member |-> chans[i].is_member,
                topic |-> IF IsSome(chans[i].topic) /\ IsSome(Get(chans[i].topic).value)
                            THEN Some(substring(Get(Get(chans[i].topic).value), TopicMaxLen))
                            ELSE None]]])))

\* A faulty variant: an unknown name answered without the error flag.
handlerBeginUnflagged(name, args, channel) ==
  CASE name = "check_build_status" -> checkBuildStatusBegin(args, channel)
    [] name = "get_channel_messages" -> getChannelMessagesBegin(args, channel)
    [] name = "search_messages" -> searchMessagesBegin(args)
    [] name = "send_message" -> sendMessageBegin(args, channel)
    [] name = "list_channels" -> listChannelsBegin(args)
    [] OTHER -> Return(Envelope(Plain("Unknown tool: " \o name)))

\* switch (name): the code of the case up to its await
handlerBegin(name, args, channel) ==
  CASE name = "check_build_status" -> checkBuildStatusBegin(args, channel)
    [] name = "get_channel_messages" -> getChannelMessagesBegin(args, channel)
    [] name = "search_messages" -> searchMessagesBegin(args)
    [] name = "send_message" -> sendMessageBegin(args, channel)
    [] name = "list_channels" -> listChannelsBegin(args)
    [] OTHER -> Return(ErrorEnvelope(Plain("Unknown tool: " \o name)))

\* switch (name): the code of the case after its await
handlerFinish(name, args, o) ==
  CASE name = "check_build_status" -> checkBuildStatusFinish(args, o)
    [] name = "get_channel_messages" -> getChannelMessagesFinish(args, o)
    [] name = "search_messages" -> searchMessagesFinish(args, o)
    [] name = "send_message" -> sendMessageFinish(args, o)
    [] name = "list_channels" -> listChannelsFinish(args, o)

\* } catch (error) { return { ..., text: `Slack API error: ${error.message}`, isError: true } }
catchAll(r) ==
  IF r.kind = "throw"
    THEN ErrorEnvelope(Plain("Slack API error: " \o r.error.message))
    ELSE r.envelope

(***************************************************************************)
(* The collaborator's outcomes and the requests the client sends.          *)
(***************************************************************************)
NetworkError == [message |-> "request timed out", data |-> None]
PlatformError(code) ==
  [message |-> "An API error occurred: " \o code, data |-> Some([error |-> code])]
Failures == {NetworkError, PlatformError("missing_scope"), PlatformError("channel_not_found")}

Resolved(result) == [ok |-> TRUE, result |-> result]
Rejected(error) == [ok |-> FALSE, error |-> error]

SearchMatch ==
  [ts |-> [sec |-> BaseSec, micro |-> 0], channel |-> Some([name |-> Some("builds")]),
   text |-> Some("Nutri-E build failed"), user |-> Some("U0DEV")]

ChannelRecord ==
  [id |-> "C0BUILD", name |-> "builds", is_private |-> FALSE, is_member |-> TRUE,
   topic |-> Some([value |-> Some("Xcode Cloud builds")])]

\* what the promise of collaborator call c can settle to, given the number of
\* calls that failed so far; the messaging service returns at most the number
\* of messages asked for
Outcomes(c, failed) ==
  (IF failed < MaxFailures THEN {Rejected(e) : e \in Failures} ELSE {}) \cup
  CASE c.method = "conversations.history" ->
         {Resolved([messages |-> Some(slice(h, c.limit))]) : h \in Histories}
           \cup {Resolved([messages |-> None])}
    [] c.method = "search.messages" ->
         {Resolved([messages |-> Some([matches |-> Some(<<SearchMatch>>), total |-> Some(1)])]),
          Resolved([messages |-> Some([matches |-> None, total |-> None])]),
          Resolved([messages |-> None])}
    [] c.method = "chat.postMessage" ->
         {Resolved([ok |-> TRUE, ts |-> "1700000.000200", channel |-> c.channel])}
    [] c.method = "conversations.list" ->
         {Resolved([channels |-> Some(<<ChannelRecord>>)]),
          Resolved([channels |-> None])}

NoArgs ==
  [limit |-> None, workflow |-> None, channel_id |-> None, query |-> None, text |-> None]

LimitValues ==
  (0..ShortLimit) \cup ((BuildLimitMax - 1)..(BuildLimitMax + 1)) \cup ((MaxLimit - 1)..MaxLimit)
BuildLimits == {None} \cup {Some(n) : n \in LimitValues}
LimitsAround(max) == {None, Some(0), Some(1), Some(max), Some(max + 1)}
ChannelIds == {None, Some("C0OTHER")}

ToolNames == {ToolCatalogue[i] : i \in 1..Len(ToolCatalogue)}
RequestNames == ToolNames \cup {"restart_build", ""}

\* the argument records a client sends with tool name n
ArgsOf(n) ==
  CASE n = "check_build_status" ->
         {[NoArgs EXCEPT !.limit = l, !.workflow = w] : l \in BuildLimits, w \in Filters}
    [] n = "get_channel_messages" ->
         {[NoArgs EXCEPT !.limit = l, !.channel_id = ch] :
            l \in LimitsAround(MessageLimitMax), ch \in ChannelIds}
    [] n = "search_messages" ->
         {[NoArgs EXCEPT !.limit = l, !.query = q] :
            l \in LimitsAround(MessageLimitMax), q \in {None, Some(""), Some("build failed")}}
    [] n = "send_message" ->
         {[NoArgs EXCEPT !.channel_id = ch, !.text = t] :
            ch \in ChannelIds, t \in {None, Some(""), Some("Build fixed")}}
    [] n = "list_channels" ->
         {[NoArgs EXCEPT !.limit = l] : l \in LimitsAround(ChannelLimitMax)}
    [] OTHER -> {NoArgs}

(***************************************************************************)
(* The server.                                                             *)
(***************************************************************************)
Slots == DOMAIN pc

Init ==
  /\ slackToken \in {None, Some("xoxb-token")}
  /\ buildChannelId \in {None, Some("C0BUILD")}
  /\ proc = "starting"
  /\ pc = [s \in {1} |-> "idle"]
  /\ request = [s \in {1} |-> None]
  /\ call = [s \in {1} |-> None]
  /\ reply = [s \in {1} |-> None]
  /\ response = [s \in {1} |-> None]
  /\ failures = 0
  /\ posted = << >>
  /\ listed = None
  /\ input = None
  /\ parsed = None

\* if (!slackToken) { ...; process.exit(1) } ... main()
Startup ==
  /\ proc = "starting"
  /\ proc' = IF Truthy(slackToken) THEN "serving" ELSE "exited"
  /\ UNCHANGED <<slackToken, buildChannelId, pc, request, call, reply, response,
                 failures, posted, listed, input, parsed>>

\* the ListToolsRequestSchema handler
ListTools ==
  /\ proc = "serving"
  /\ listed' = Some(ToolCatalogue)
  /\ UNCHANGED <<slackToken, buildChannelId, proc, pc, request, call, reply,
                 response, failures, posted, input, parsed>>

\* the CallToolRequestSchema handler, from its entry to its first await or to
\* its return when it awaits nothing
CallTool(s, n, args) ==
  /\ proc = "serving"
  /\ pc[s] = "idle"
  /\ n = "send_message" => Len(posted) < MaxPosts
  /\ request' = [request EXCEPT ![s] = Some([name |-> n, args |-> args])]
  /\ LET b == handlerBegin(n, args, buildChannelId)
     IN IF b.kind = "await"
          THEN /\ pc' = [pc EXCEPT ![s] = "awaiting"]
               /\ call' = [call EXCEPT ![s] = Some(b.call)]
               /\ UNCHANGED response
          ELSE /\ pc' = [pc EXCEPT ![s] = "responded"]
               /\ response' = [response EXCEPT ![s] = Some(catchAll(b))]
               /\ UNCHANGED call
  /\ UNCHANGED <<slackToken, buildChannelId, proc, reply, failures, posted, listed,
                 input, parsed>>

\* A faulty variant: a failed call is issued again instead of being reported.
SettleRetrying(s, o) ==
  /\ proc = "serving"
  /\ pc[s] = "awaiting"
  /\ reply' = [reply EXCEPT ![s] = Some(o)]
  /\ IF o.ok
       THEN /\ response' = [response EXCEPT ![s] =
                 Some(catchAll(handlerFinish(Get(request[s]).name,
                                             Get(request[s]).args, o)))]
            /\ pc' = [pc EXCEPT ![s] = "responded"]
            /\ UNCHANGED failures
       ELSE /\ failures' = failures + 1
            /\ UNCHANGED <<response, pc>>
  /\ posted' = IF Get(call[s]).method = "chat.postMessage" /\ o.ok
                 THEN Append(posted, [channel |-> Get(call[s]).channel,
                                      text |-> Get(call[s]).text])
                 ELSE posted
  /\ UNCHANGED <<slackToken, buildChannelId, proc, request, call, listed,
                 input, parsed>>

\* the awaited promise settles with outcome o and the handler runs to its end
Settle(s, o) ==
  /\ proc = "serving"
  /\ pc[s] = "awaiting"
  /\ \E r \in {handlerFinish(Get(request[s]).name, Get(request[s]).args, o)} :
       /\ response' = [response EXCEPT ![s] = Some(catchAll(r))]
       /\ failures' = IF r.kind = "throw" THEN failures + 1 ELSE failures
  /\ reply' = [reply EXCEPT ![s] = Some(o)]
  /\ pc' = [pc EXCEPT ![s] = "responded"]
  /\ posted' = IF Get(call[s]).method = "chat.postMessage" /\ o.ok
                 THEN Append(posted, [channel |-> Get(call[s]).channel,
                                      text |-> Get(call[s]).text])
                 ELSE posted
  /\ UNCHANGED <<slackToken, buildChannelId, proc, request, call, listed,
                 input, parsed>>

\* the envelope goes back to the client; the invocation's locals are gone
Respond(s) ==
  /\ pc[s] = "responded"
  /\ pc' = [pc EXCEPT ![s] = "idle"]
  /\ request' = [request EXCEPT ![s] = None]
  /\ call' = [call EXCEPT ![s] = None]
  /\ reply' = [reply EXCEPT ![s] = None]
  /\ response' = [response EXCEPT ![s] = None]
  /\ UNCHANGED <<slackToken, buildChannelId, proc, failures, posted, listed,
                 input, parsed>>

Next ==
  \/ Startup
  \/ ListTools
  \/ \E s \in Slots : pc[s] = "idle" /\ proc = "serving" /\
       \E n \in RequestNames : \E args \in ArgsOf(n) : CallTool(s, n, args)
  \/ \E s \in Slots : pc[s] = "awaiting" /\
       \E o \in Outcomes(Get(call[s]), failures) : Settle(s, o)
  \/ \E s \in Slots : Respond(s)

Spec == Init /\ [][Next]_vars

(***************************************************************************)
(* The parser harness: buildMessage applied to one raw message, drawn from *)
(* families of bodies and attachments that exercise the three extractors.  *)
(***************************************************************************)
StatusWords ==
  {"", "succeeded", "success", "FAILED", "failure", "Started", "running",
   "cancelled", "Canceled"}

StatusBodies == {"Build " \o a \o " then " \o b : a \in StatusWords, b \in StatusWords}

\* one phrase per duration pattern, in the order of the patterns
DurationPhrases ==
  <<"Duration: 7 min 5 sec", "took 0 min 45 sec", "completed in 5 minutes 30 seconds",
    "12 mins", "1:45">>

DurationBodies ==
  {"Build 42 ok", "Build completed in 5 minutes 30 seconds"}
    \cup {"Run " \o DurationPhrases[i] : i \in 1..NumDurationPatterns}
    \cup {DurationPhrases[i] \o "; " \o DurationPhrases[j] :
            i \in 1..NumDurationPatterns, j \in 1..NumDurationPatterns}

\* a keyword that ends at, straddles or follows the character the output
\* record's text is cut at
LongBodies ==
  {Pad(TextMaxLen - k) \o " failed after running" : k \in {7, 3, 0}}

BodyChoices ==
  {None, Some("")} \cup {Some(b) : b \in StatusBodies \cup DurationBodies \cup LongBodies}

AttachmentChoices ==
  {None,
   Some(<< >>),
   Some(<<Attachment(Some("Nutri-E"), Some("Build failed, took 3 min"), Some("danger"))>>),
   Some(<<Attachment(None, Some("succeeded"), None),
          Attachment(Some("Duration"), Some("9 min"), None)>>)}

\* bodies and attachments for the workflow name: a "workflow:" label, a leading
\* word sequence before "build", and first-attachment titles around the length
\* the fallback admits
WorkflowCases ==
  {<<Some("Workflow: Nutri-E build finished"), None>>,
   <<Some("Workflow: Alpha, beta"), Some(<<Attachment(Some("Other"), None, None)>>)>>,
   <<Some("Nutri-E Build passed"), Some(<<Attachment(Some("Other"), None, None)>>)>>,
   <<Some("nightly build passed"), Some(<<Attachment(Some("Nutri-E"), None, None)>>)>>,
   <<Some("Deploy done"), Some(<<Attachment(Some("Nutri-E"), None, None)>>)>>,
   <<Some("Deploy done"), Some(<<Attachment(Some(Pad(TitleMaxLen - 1)), None, None)>>)>>,
   <<Some("Deploy done"), Some(<<Attachment(Some(Pad(TitleMaxLen)), None, None)>>)>>,
   <<Some("Deploy done"), Some(<<Attachment(Some(""), None, None)>>)>>,
   <<Some("Deploy done"), Some(<<Attachment(None, Some("archive"), None),
                                 Attachment(Some("Later"), None, None)>>)>>,
   <<None, Some(<<Attachment(Some("Nutri-E"), None, None)>>)>>}

\* bodies and attachment texts around the lengths the output record cuts at
TruncationCases ==
  {<<Some(Pad(TextMaxLen - k) \o "Deploy done"),
     Some(<<Attachment(Some(Pad(TitleMaxLen + 10)),
                       Some(Pad(AttachmentTextMaxLen - j) \o "archive"), Some("good")),
            Attachment(None, None, None)>>)>> : k \in {0, 4, 11}, j \in {0, 3, 7}}

MessageOf(b, a) ==
  [ts |-> [sec |-> BaseSec, micro |-> 123456], text |-> b, attachments |-> a,
   user |-> None, bot_id |-> Some("B0CI")]

ParseInputs ==
  {MessageOf(b, a) : b \in BodyChoices, a \in AttachmentChoices}
    \cup {MessageOf(c[1], c[2]) : c \in WorkflowCases \cup TruncationCases}

InitParse ==
  /\ input \in ParseInputs
  /\ parsed = None
  /\ slackToken = Some("xoxb-token")
  /\ buildChannelId = Some("C0BUILD")
  /\ proc = "starting"
  /\ pc = [s \in {1} |-> "idle"]
  /\ request = [s \in {1} |-> None]
  /\ call = [s \in {1} |-> None]
  /\ reply = [s \in {1} |-> None]
  /\ response = [s \in {1} |-> None]
  /\ failures = 0
  /\ posted = << >>
  /\ listed = None

\* result.messages.map((msg) => {...}) on the one message
Normalize ==
  /\ parsed = None
  /\ parsed' = Some(buildMessage(input))
  /\ UNCHANGED <<serverVars, input>>

NextParse == Normalize

SpecParse == InitParse /\ [][NextParse]_vars

(***************************************************************************)
(* Two invocations in flight: the handler is async, so a second request    *)
(* may be taken up while the first one awaits its collaborator call.       *)
(***************************************************************************)
PairRequests ==
  {[name |-> "send_message", args |-> [NoArgs EXCEPT !.text = Some("Build fixed")]],
   [name |-> "send_message", args |-> NoArgs],
   [name |-> "search_messages", args |-> [NoArgs EXCEPT !.query = Some("build failed")]],
   [name |-> "check_build_status", args |-> [NoArgs EXCEPT !.limit = Some(2)]],
   [name |-> "check_build_status", args |-> [NoArgs EXCEPT !.workflow = Some("nutri")]],
   [name |-> "get_channel_messages",
    args |-> [NoArgs EXCEPT !.channel_id = Some("C0OTHER"), !.limit = Some(1)]],
   [name |-> "list_channels", args |-> NoArgs],
   [name |-> "restart_build", args |-> NoArgs]}

InitPair ==
  /\ slackToken = Some("xoxb-token")
  /\ buildChannelId \in {None, Some("C0BUILD")}
  /\ proc = "starting"
  /\ pc = [s \in {1, 2} |-> "idle"]
  /\ request = [s \in {1, 2} |-> None]
  /\ call = [s \in {1, 2} |-> None]
  /\ reply = [s \in {1, 2} |-> None]
  /\ response = [s \in {1, 2} |-> None]
  /\ failures = 0
  /\ posted = << >>
  /\ listed = None
  /\ input = None
  /\ parsed = None

NextPair ==
  \/ Startup
  \/ ListTools
  \/ \E s \in Slots : pc[s] = "idle" /\ proc = "serving" /\
       \E r \in PairRequests : CallTool(s, r.name, r.args)
  \/ \E s \in Slots : pc[s] = "awaiting" /\
       \E o \in Outcomes(Get(call[s]), failures) : Settle(s, o)
  \/ \E s \in Slots : Respond(s)

SpecPair == InitPair /\ [][NextPair]_vars

(***************************************************************************)
(* Properties.                                                             *)
(***************************************************************************)
NameOf(s) == Get(request[s]).name
ArgsIn(s) == Get(request[s]).args
EnvelopeOf(s) == Get(response[s])
IsPlain(e) == "plain" \in DOMAIN e.text
IsJson(e) == "json" \in DOMAIN e.text

\* p is the beginning of t
StartsWith(t, p) == Len(p) <= Len(t) /\ SubSeq(t, 1, Len(p)) = p

\* the collaborator call of slot s failed
CallFailed(s) == IsSome(reply[s]) /\ ~Get(reply[s]).ok

\* an optional string that is absent or empty
Missing(o) == ~IsSome(o) \/ Get(o) = ""

\* what the source delivered to the invocation in slot s
Delivered(s) ==
  IF IsSome(reply[s]) /\ Get(reply[s]).ok /\ IsSome(Get(reply[s]).result.messages)
    THEN Get(Get(reply[s]).result.messages)
    ELSE << >>

NormalizedDelivered(s) == [i \in 1..Len(Delivered(s)) |-> Normalized[Delivered(s)[i]]]

\* slot s holds the answer of check_build_status to a successful source call
IsBuildAnswer(s) ==
  /\ pc[s] = "responded"
  /\ NameOf(s) = "check_build_status"
  /\ IsSome(reply[s])
  /\ Get(reply[s]).ok

BuildsOf(s) == EnvelopeOf(s).text.json.builds

\* the limit as the specification words it: the requested limit, 5 when none
\* is requested, at most 20
StatedLimit(args) == Min(IF IsSome(args.limit) THEN Get(args.limit) ELSE 5, 20)

\* the limit with a requested 0 read as no request
EffectiveLimit(args) ==
  Min(IF IsSome(args.limit) /\ Get(args.limit) # 0 THEN Get(args.limit) ELSE 5, 20)

\* the limit before clamping
RequestedOrDefault(args) ==
  IF IsSome(args.limit) /\ Get(args.limit) # 0 THEN Get(args.limit) ELSE 5

RECURSIVE SubsequenceFrom(_, _, _, _)
SubsequenceFrom(sub, j, full, i) ==
  IF j > Len(sub) THEN TRUE
  ELSE IF i > Len(full) THEN FALSE
  ELSE IF sub[j] = full[i] THEN SubsequenceFrom(sub, j + 1, full, i + 1)
  ELSE SubsequenceFrom(sub, j, full, i + 1)

\* sub is full with some entries left out, the order kept
IsSubsequence(sub, full) == SubsequenceFrom(sub, 1, full, 1)

\* C1: whenever the collaborator call of an invocation fails, the envelope
\* returned has the error flag set and its text carries the failure's message,
\* and the server goes on serving.
C1_FailureYieldsErrorEnvelope ==
  \A s \in Slots :
    (pc[s] = "responded" /\ CallFailed(s)) =>
      /\ proc = "serving"
      /\ EnvelopeOf(s).isError
      /\ IsPlain(EnvelopeOf(s))
      /\ includes(EnvelopeOf(s).text.plain, Get(reply[s]).error.message)

\* a tool's precondition on its arguments and the configuration is not met
PreconditionUnmet(n, args, channel) ==
  \/ n = "check_build_status" /\ Missing(channel)
  \/ n \in {"get_channel_messages", "send_message"} /\ Missing(args.channel_id)
       /\ Missing(channel)
  \/ n = "search_messages" /\ Missing(args.query)
  \/ n = "send_message" /\ Missing(args.text)

\* C2: an invocation whose precondition is unmet is answered at once with an
\* error text that does not come from the catch block, and it never issues a
\* collaborator call, so nothing is posted for it.
C2_UnmetPreconditionIsSoftError ==
  \A s \in Slots :
    (pc[s] # "idle" /\ PreconditionUnmet(NameOf(s), ArgsIn(s), buildChannelId)) =>
      /\ pc[s] = "responded"
      /\ call[s] = None
      /\ reply[s] = None
      /\ IsPlain(EnvelopeOf(s))
      /\ StartsWith(EnvelopeOf(s).text.plain, "Error: ")

C2_Witness ==
  \E s \in Slots :
    /\ pc[s] = "responded"
    /\ NameOf(s) = "send_message"
    /\ ~Missing(ArgsIn(s).channel_id)
    /\ Missing(ArgsIn(s).text)
    /\ EnvelopeOf(s).text = Plain("Error: text parameter is required")
    /\ posted = << >>

StatedCatalogue ==
  <<"check_build_status", "get_channel_messages", "search_messages",
    "send_message", "list_channels">>

\* C3: the listing is the five tools; a name outside them is answered with
\* the flagged "Unknown tool" envelope without any collaborator call, and a
\* name among them never is.
C3_CatalogueAndUnknownTool ==
  /\ IsSome(listed) => Get(listed) = StatedCatalogue
  /\ \A s \in Slots :
       pc[s] # "idle" =>
         IF \E i \in 1..Len(StatedCatalogue) : StatedCatalogue[i] = NameOf(s)
           THEN pc[s] = "responded" =>
                  ~(IsPlain(EnvelopeOf(s))
                      /\ StartsWith(EnvelopeOf(s).text.plain, "Unknown tool"))
           ELSE /\ pc[s] = "responded"
                /\ call[s] = None
                /\ EnvelopeOf(s) = [isError |-> TRUE,
                                    text |-> Plain("Unknown tool: " \o NameOf(s))]

C3_Witness ==
  /\ IsSome(listed)
  /\ \E s \in Slots :
       /\ pc[s] = "responded"
       /\ NameOf(s) = "restart_build"
       /\ EnvelopeOf(s).isError

\* C4 as stated: the builds are at most L, the requested limit (5 when none
\* is requested) clamped to 20, and a subsequence of the normalized messages.
C4_Stated ==
  \A s \in Slots :
    (IsBuildAnswer(s) /\ IsJson(EnvelopeOf(s))) =>
      /\ Len(BuildsOf(s)) <= StatedLimit(ArgsIn(s))
      /\ IsSubsequence(BuildsOf(s), NormalizedDelivered(s))

\* C4 as amended: the same with L the requested limit, or 5 when the limit
\* is omitted or 0, clamped to 20.
C4_AtMostLimitAndSubsequence ==
  \A s \in Slots :
    (IsBuildAnswer(s) /\ IsJson(EnvelopeOf(s))) =>
      /\ Len(BuildsOf(s)) <= EffectiveLimit(ArgsIn(s))
      /\ IsSubsequence(BuildsOf(s), NormalizedDelivered(s))

\* more messages match than the limit admits, and fewer in another slot's run
C4_Witness ==
  \E s \in Slots :
    /\ IsBuildAnswer(s)
    /\ IsJson(EnvelopeOf(s))
    /\ ~Missing(ArgsIn(s).workflow)
    /\ ArgsIn(s).limit = Some(MaxLimit)
    /\ Len(Delivered(s)) > 20
    /\ Len(BuildsOf(s)) = 20

\* C5 as stated: min(L*4, 100) with a filter and L without, L clamped to 20,
\* so never more than 80 with a filter.
C5_Stated ==
  \A s \in Slots :
    (pc[s] # "idle" /\ NameOf(s) = "check_build_status" /\ IsSome(call[s])) =>
      /\ Get(call[s]).limit =
           IF IsSome(ArgsIn(s).workflow)
             THEN Min(StatedLimit(ArgsIn(s)) * 4, 100)
             ELSE StatedLimit(ArgsIn(s))
      /\ IsSome(ArgsIn(s).workflow) => Get(call[s]).limit <= 80

\* C5 as amended: min(R*4, 100) with a non-empty filter and min(R, 20)
\* otherwise, R the requested limit, or 5 when it is omitted or 0; R is not
\* clamped before the multiplication.
C5_FetchLimit ==
  \A s \in Slots :
    (pc[s] # "idle" /\ NameOf(s) = "check_build_status" /\ IsSome(call[s])) =>
      Get(call[s]).limit =
        IF ~Missing(ArgsIn(s).workflow)
          THEN Min(RequestedOrDefault(ArgsIn(s)) * 4, 100)
          ELSE Min(RequestedOrDefault(ArgsIn(s)), 20)

C5_Witness ==
  \E s \in Slots :
    /\ pc[s] = "awaiting"
    /\ NameOf(s) = "check_build_status"
    /\ ~Missing(ArgsIn(s).workflow)
    /\ ArgsIn(s).limit = Some(MaxLimit - 1)
    /\ Get(call[s]).limit = 100

\* the text of F occurs in hay, letter case ignored
ContainsIgnoringCase(hay, F) == includes(toLowerCase(hay), toLowerCase(F))

RECURSIVE JoinedAttachmentText(_)
JoinedAttachmentText(list) ==
  IF list = << >> THEN ""
  ELSE LET a == Head(list)
           line == (IF IsSome(a.title) THEN Get(a.title) ELSE "") \o " " \o
                   (IF IsSome(a.text) THEN substring(Get(a.text), 200) ELSE "")
       IN IF Len(list) = 1 THEN line
          ELSE line \o " " \o JoinedAttachmentText(Tail(list))

\* the three places a workflow filter is looked for, read off the raw message
FilterHits(m, F) ==
  \/ IsSome(Normalized[m].workflow)
       /\ ContainsIgnoringCase(Get(Normalized[m].workflow), F)
  \/ ContainsIgnoringCase(
       substring(IF IsSome(m.text) THEN Get(m.text) ELSE "", 500), F)
  \/ IsSome(m.attachments)
       /\ ContainsIgnoringCase(JoinedAttachmentText(Get(m.attachments)), F)

GivenFilters == {Get(f) : f \in Filters \ {None}}

FilterHitTable == [m \in SourceMessages, F \in GivenFilters |-> FilterHits(m, F)]

FirstOf(list, n) == SubSeq(list, 1, Min(n, Len(list)))

\* C6: with a workflow filter F the builds are the first L, in source order,
\* of the normalized messages in which lower-cased F occurs in the lower-cased
\* workflow, the lower-cased truncated text or the lower-cased joined
\* attachment titles and truncated texts.
C6_FilteredBuilds ==
  \A s \in Slots :
    (IsBuildAnswer(s) /\ IsSome(ArgsIn(s).workflow) /\ IsJson(EnvelopeOf(s))) =>
      LET F == Get(ArgsIn(s).workflow)
          hits == SelectSeq(Delivered(s), LAMBDA m : FilterHitTable[m, F])
      IN BuildsOf(s) =
           FirstOf([i \in 1..Len(hits) |-> Normalized[hits[i]]],
                   EffectiveLimit(ArgsIn(s)))

\* a message that matches through its workflow field alone is returned while
\* another delivered message is left out
C6_Witness ==
  \E s \in Slots :
    /\ IsBuildAnswer(s)
    /\ IsJson(EnvelopeOf(s))
    /\ ArgsIn(s).workflow = Some("Nutri E")
    /\ Len(BuildsOf(s)) > 0
    /\ Len(BuildsOf(s)) < Min(Len(Delivered(s)), EffectiveLimit(ArgsIn(s)))
    /\ \E i \in 1..Len(BuildsOf(s)) :
         /\ BuildsOf(s)[i].workflow = Some("Nutri E")
         /\ ~ContainsIgnoringCase(BuildsOf(s)[i].text, "Nutri E")

StatusKeywords ==
  <<[status |-> "succeeded", words |-> {"succeeded", "success"}],
    [status |-> "failed", words |-> {"failed", "failure"}],
    [status |-> "running", words |-> {"started", "running"}],
    [status |-> "cancelled", words |-> {"cancelled", "canceled"}]>>

HasDigit(t) == \E i \in 1..Len(t) : CharAt(t, i) \in DigitSet

\* a message no extraction can match: no status keyword in the body, and in
\* the body and attachments together no digit, no "workflow", no "build", and
\* no title on the first attachment
NothingToExtract(m) ==
  LET body == IF IsSome(m.text) THEN Get(m.text) ELSE ""
      atts == IF IsSome(m.attachments) THEN Get(m.attachments) ELSE << >>
      all == body \o " " \o JoinedAttachmentText(atts)
  IN /\ \A g \in 1..Len(StatusKeywords) :
          \A w \in StatusKeywords[g].words : ~ContainsIgnoringCase(body, w)
     /\ ~HasDigit(all)
     /\ ~ContainsIgnoringCase(all, "workflow")
     /\ ~ContainsIgnoringCase(all, "build")
     /\ (atts # << >> => ~IsSome(atts[1].title))

NothingToExtractTable == [m \in SourceMessages |-> NothingToExtract(m)]

\* C7: without a workflow filter the builds are one entry per delivered
\* message, in the same order, up to L; an entry of a message no extraction
\* matches has status unknown and no workflow and no duration; an invocation
\* the source answered never fails on normalizing.
C7_OneBuildPerMessage ==
  \A s \in Slots :
    IsBuildAnswer(s) =>
      /\ ~EnvelopeOf(s).isError
      /\ (Missing(ArgsIn(s).workflow) /\ Delivered(s) # << >>) =>
           /\ IsJson(EnvelopeOf(s))
           /\ Len(BuildsOf(s)) =
                Min(Len(Delivered(s)), EffectiveLimit(ArgsIn(s)))
           /\ \A i \in 1..Len(BuildsOf(s)) :
                /\ BuildsOf(s)[i].timestamp = toISOString(Delivered(s)[i].ts)
                /\ NothingToExtractTable[Delivered(s)[i]] =>
                     /\ BuildsOf(s)[i].status = "unknown"
                     /\ BuildsOf(s)[i].workflow = None
                     /\ BuildsOf(s)[i].duration = None

C7_Witness ==
  \E s \in Slots :
    /\ IsBuildAnswer(s)
    /\ Missing(ArgsIn(s).workflow)
    /\ IsJson(EnvelopeOf(s))
    /\ Len(BuildsOf(s)) > 1
    /\ \E i \in 1..Len(BuildsOf(s)) :
         /\ NothingToExtractTable[Delivered(s)[i]]
         /\ BuildsOf(s)[i].status = "unknown"

RawBody(m) == IF IsSome(m.text) THEN Get(m.text) ELSE ""

\* the status of the first keyword group, in the stated order, with a keyword
\* in the body, letter case ignored
StatedStatus(body) ==
  LET hit == {g \in 1..Len(StatusKeywords) :
                \E w \in StatusKeywords[g].words : ContainsIgnoringCase(body, w)}
  IN IF hit = {} THEN "unknown" ELSE StatusKeywords[SetMin(hit)].status

\* C8: the status is that of the first keyword group, in the order succeeded,
\* failed, running, cancelled, with a keyword occurring in the body, letter
\* case ignored, and unknown when there is none or no body.
C8_StatusByFirstGroup ==
  IsSome(parsed) => Get(parsed).status = StatedStatus(RawBody(input))

C8_Witness ==
  /\ IsSome(parsed)
  /\ ContainsIgnoringCase(RawBody(input), "failed")
  /\ ContainsIgnoringCase(RawBody(input), "running")
  /\ Len(RawBody(input)) < TextMaxLen
  /\ Get(parsed).status = "failed"

\* C9: the status is the same whatever the attachments of the message are,
\* so a keyword in an attachment alone does not change it, and it is the
\* status of the whole body, not of its first 500 characters.
C9_StatusFromBodyOnly ==
  IsSome(parsed) =>
    /\ \A a \in AttachmentChoices :
         buildMessage([input EXCEPT !.attachments = a]).status = Get(parsed).status
    /\ Len(RawBody(input)) > 500 =>
         Get(parsed).status = StatedStatus(RawBody(input))

\* the body is cut inside its only keyword, and an attachment says "succeeded"
C9_Witness ==
  /\ IsSome(parsed)
  /\ Len(RawBody(input)) > 500
  /\ StatedStatus(substring(RawBody(input), 500)) = "unknown"
  /\ IsSome(input.attachments)
  /\ ContainsIgnoringCase(JoinedAttachmentText(Get(input.attachments)), "succeeded")
  /\ Get(parsed).status = "failed"

RECURSIVE TitlesAndTexts(_)
TitlesAndTexts(list) ==
  IF list = << >> THEN ""
  ELSE (IF IsSome(Head(list).title) THEN Get(Head(list).title) ELSE "") \o " " \o
       (IF IsSome(Head(list).text) THEN Get(Head(list).text) ELSE "") \o " " \o
       TitlesAndTexts(Tail(list))

\* the body with the attachment titles and texts after it
CombinedText(m) ==
  RawBody(m) \o " " \o
    (IF IsSome(m.attachments) THEN TitlesAndTexts(Get(m.attachments)) ELSE "")

\* the duration phrases of the inputs, by the pattern that matches each and,
\* within a pattern, the body's phrase before the attachments'
KnownPhrases ==
  <<[phrase |-> "Duration: 7 min 5 sec", minutes |-> 7, seconds |-> 5],
    [phrase |-> "Duration 9 min", minutes |-> 9, seconds |-> 0],
    [phrase |-> "took 0 min 45 sec", minutes |-> 0, seconds |-> 45],
    [phrase |-> "took 3 min", minutes |-> 3, seconds |-> 0],
    [phrase |-> "completed in 5 minutes 30 seconds", minutes |-> 5, seconds |-> 30],
    [phrase |-> "12 mins", minutes |-> 12, seconds |-> 0],
    [phrase |-> "1:45", minutes |-> 1, seconds |-> 45]>>

StatedDuration(mins, secs) ==
  [minutes |-> mins,
   seconds |-> secs,
   totalSeconds |-> mins * 60 + secs,
   formatted |-> IF mins > 0 THEN ToString(mins) \o "m " \o ToString(secs) \o "s"
                 ELSE ToString(secs) \o "s"]

\* C10: the duration is that of the highest-priority pattern with a match in
\* the body and attachments together, wherever the matches sit, with minutes
\* and seconds the captured numbers (0 when absent), totalSeconds =
\* minutes*60+seconds and formatted "{m}m {s}s" or, with no minutes, "{s}s";
\* it is absent exactly when no pattern matches.
C10_DurationByPriority ==
  IsSome(parsed) =>
    LET found == {i \in 1..Len(KnownPhrases) :
                    includes(CombinedText(input), KnownPhrases[i].phrase)}
        d == Get(parsed).duration
    IN /\ d = None <=> found = {}
       /\ found # {} =>
            d = Some(StatedDuration(KnownPhrases[SetMin(found)].minutes,
                                    KnownPhrases[SetMin(found)].seconds))
       /\ (input.text = Some("Build completed in 5 minutes 30 seconds")
             /\ input.attachments = None) =>
            d = Some([minutes |-> 5, seconds |-> 30, totalSeconds |-> 330,
                      formatted |-> "5m 30s"])

\* a bare "12 mins" stands before a "took" phrase, and the "took" phrase wins
C10_Witness ==
  /\ IsSome(parsed)
  /\ input.text = Some("12 mins; took 0 min 45 sec")
  /\ input.attachments = None
  /\ Get(parsed).duration = Some(StatedDuration(0, 45))

\* C11 as stated: on "Workflow: Nutri-E build finished" without attachments
\* the workflow is "Nutri-E".
C11_Stated ==
  (IsSome(parsed) /\ input.text = Some("Workflow: Nutri-E build finished")
     /\ input.attachments = None) =>
    Get(parsed).workflow = Some("Nutri-E")

\* C11 as amended: on "Workflow: Nutri-E build finished" without attachments
\* the workflow is "Nutri-E build finished", the name running to the end of
\* the text; a name ends only at a comma or a line break.
C11_NameRunsToCommaOrEnd ==
  IsSome(parsed) =>
    /\ (input.text = Some("Workflow: Nutri-E build finished")
          /\ input.attachments = None) =>
         Get(parsed).workflow = Some("Nutri-E build finished")
    /\ input.text = Some("Workflow: Alpha, beta") =>
         Get(parsed).workflow = Some("Alpha")

C11_Witness ==
  /\ IsSome(parsed)
  /\ input.text = Some("Workflow: Nutri-E build finished")
  /\ input.attachments = None
  /\ IsSome(Get(parsed).workflow)
  /\ Len(Get(Get(parsed).workflow)) = 22

\* the title the fallback is stated to return
StatedTitle(m) ==
  IF IsSome(m.attachments) /\ Get(m.attachments) # << >>
       /\ IsSome(Get(m.attachments)[1].title)
       /\ Len(Get(Get(m.attachments)[1].title)) > 0
       /\ Len(Get(Get(m.attachments)[1].title)) < 50
    THEN Get(m.attachments)[1].title
    ELSE None

\* C12: when the text has no "workflow" and does not begin with a Capitalized
\* word, neither pattern matches, so the workflow is the first attachment's
\* title if that has between 1 and 49 characters, and absent otherwise.
C12_FallbackWhenNoPatternMatches ==
  (IsSome(parsed)
     /\ ~ContainsIgnoringCase(CombinedText(input), "workflow")
     /\ (RawBody(input) = "" \/ CharAt(RawBody(input), 1) \notin UpperSet)) =>
    Get(parsed).workflow = StatedTitle(input)

\* the first 500 or 200 characters
FirstChars(t, n) == IF Len(t) <= n THEN t ELSE SubSeq(t, 1, n)

\* C13: the record's text is the first 500 characters of the body, each
\* output attachment's text the first 200 characters of the source
\* attachment's, each title is the source's, and the attachment list is
\* absent when the message has none.
C13_Truncation ==
  IsSome(parsed) =>
    /\ Get(parsed).text = FirstChars(RawBody(input), 500)
    /\ Len(Get(parsed).text) <= 500
    /\ IsSome(Get(parsed).attachments) <=> IsSome(input.attachments)
    /\ IsSome(input.attachments) =>
         /\ Len(Get(Get(parsed).attachments)) = Len(Get(input.attachments))
         /\ \A i \in 1..Len(Get(input.attachments)) :
              LET src == Get(input.attachments)[i]
                  out == Get(Get(parsed).attachments)[i]
              IN /\ out.title = src.title
                 /\ out.color = src.color
                 /\ IsSome(out.text) <=> IsSome(src.text)
                 /\ IsSome(src.text) =>
                      /\ Get(out.text) = FirstChars(Get(src.text), 200)
                      /\ Len(Get(out.text)) <= 200

C13_Witness ==
  /\ IsSome(parsed)
  /\ Len(RawBody(input)) > 500
  /\ Len(Get(parsed).text) = 500
  /\ IsSome(input.attachments)
  /\ Len(Get(input.attachments)) = 2
  /\ IsSome(Get(input.attachments)[1].text)
  /\ Len(Get(Get(input.attachments)[1].text)) > 200
  /\ Len(Get(Get(Get(parsed).attachments)[1].text)) = 200
  /\ Len(Get(Get(Get(parsed).attachments)[1].title)) > 50
  /\ Get(Get(parsed).attachments)[2].text = None

\* C14: an invocation is served only by a process that was started with both
\* the bot token and the build channel id.
C14_BothSettingsRequired ==
  \A s \in Slots :
    pc[s] # "idle" => (~Missing(slackToken) /\ ~Missing(buildChannelId))

\* the limit argument of slot s is omitted, or is above max
LimitOmitted(s) == ~IsSome(ArgsIn(s).limit)
LimitAbove(s, max) == IsSome(ArgsIn(s).limit) /\ Get(ArgsIn(s).limit) > max

\* the limit tool n passes on is at most max and is dflt when none is given,
\* and a limit above max is neither refused nor answered with an error
ClampedNotRejected(s, max, dflt) ==
  /\ IsSome(call[s]) =>
       /\ Get(call[s]).limit <= max
       /\ LimitOmitted(s) => Get(call[s]).limit = dflt
  /\ (LimitAbove(s, max)
        /\ ~PreconditionUnmet(NameOf(s), ArgsIn(s), buildChannelId)) =>
       /\ IsSome(call[s])
       /\ Get(call[s]).limit = max
       /\ (pc[s] = "responded" /\ ~CallFailed(s)) =>
            /\ ~EnvelopeOf(s).isError
            /\ ~(IsPlain(EnvelopeOf(s))
                   /\ StartsWith(EnvelopeOf(s).text.plain, "Error"))

\* C15: the limit passed to the collaborator is at most 20 for
\* check_build_status without a filter, 100 for get_channel_messages and 200
\* for list_channels, it is the default 5, 10 or 50 when no limit is given,
\* and a limit above the maximum is never answered with an error.
C15_LimitsClamped ==
  \A s \in Slots :
    pc[s] # "idle" =>
      /\ (NameOf(s) = "check_build_status" /\ Missing(ArgsIn(s).workflow)) =>
           ClampedNotRejected(s, 20, 5)
      /\ NameOf(s) = "get_channel_messages" => ClampedNotRejected(s, 100, 10)
      /\ NameOf(s) = "list_channels" => ClampedNotRejected(s, 200, 50)

C15_Witness ==
  \E s \in Slots :
    /\ pc[s] = "responded"
    /\ NameOf(s) = "list_channels"
    /\ ArgsIn(s).limit = Some(201)
    /\ Get(call[s]).limit = 200
    /\ ~CallFailed(s)
    /\ IsJson(EnvelopeOf(s))

\* the failure carries the "missing scope" error code
IsMissingScope(e) == IsSome(e.data) /\ Get(e.data).error = "missing_scope"

\* C16: a failed search call that carries the missing-scope code is answered
\* with the message about the missing search scope, any other failed search
\* call with the flagged envelope that contains the failure's message, and
\* the server goes on serving in both cases.
C16_SearchFailures ==
  \A s \in Slots :
    (pc[s] = "responded" /\ NameOf(s) = "search_messages" /\ CallFailed(s)) =>
      /\ proc = "serving"
      /\ IsPlain(EnvelopeOf(s))
      /\ IF IsMissingScope(Get(reply[s]).error)
           THEN /\ includes(EnvelopeOf(s).text.plain, "missing 'search:read' scope")
                /\ ~includes(EnvelopeOf(s).text.plain, Get(reply[s]).error.message)
           ELSE /\ EnvelopeOf(s).isError
                /\ includes(EnvelopeOf(s).text.plain, Get(reply[s]).error.message)

C16_Witness ==
  \E s \in Slots :
    /\ pc[s] = "responded"
    /\ NameOf(s) = "search_messages"
    /\ CallFailed(s)
    /\ IsMissingScope(Get(reply[s]).error)
    /\ StartsWith(EnvelopeOf(s).text.plain, "Error: Bot token missing")

\* a failed collaborator call ends the invocation with a text that reports it
FailedCallIsFinal ==
  \A s \in Slots :
    CallFailed(s) =>
      /\ pc[s] = "responded"
      /\ IsPlain(EnvelopeOf(s))
      /\ \/ StartsWith(EnvelopeOf(s).text.plain, "Slack API error: ")
         \/ StartsWith(EnvelopeOf(s).text.plain, "Error: ")

\* an answer is a function of the invocation's own name and arguments, the
\* configuration and the reply to the invocation's own call
OwnAnswer ==
  \A s \in Slots :
    pc[s] = "responded" =>
      /\ IsSome(reply[s]) <=> IsSome(call[s])
      /\ EnvelopeOf(s) =
           catchAll(IF IsSome(reply[s])
                      THEN handlerFinish(NameOf(s), ArgsIn(s), Get(reply[s]))
                      ELSE handlerBegin(NameOf(s), ArgsIn(s), buildChannelId))

\* within an invocation the call, once issued, and the reply, once received,
\* do not change, and a message is added to the posted ones only by the one
\* step in which a send_message invocation's call succeeds
OneCallStep ==
  /\ \A s \in Slots :
       /\ IsSome(call[s]) => (call'[s] = call[s] \/ pc'[s] = "idle")
       /\ IsSome(reply[s]) => (reply'[s] = reply[s] \/ pc'[s] = "idle")
       /\ (pc[s] = "responded" /\ pc'[s] # "idle") => response'[s] = response[s]
  /\ posted' # posted =>
       \E s \in Slots :
         /\ pc[s] = "awaiting"
         /\ pc'[s] = "responded"
         /\ NameOf(s) = "send_message"
         /\ posted' = Append(posted, [channel |-> Get(call[s]).channel,
                                      text |-> Get(ArgsIn(s).text)])

FilterRemovesAll(s) ==
  /\ ~Missing(ArgsIn(s).workflow)
  /\ \A i \in 1..Len(Delivered(s)) :
       ~FilterHitTable[Delivered(s)[i], Get(ArgsIn(s).workflow)]

\* C18: with no message delivered the answer is the plain notice "No build
\* messages found in the channel."; with messages delivered it is the record,
\* and when the filter removes them all the record has no builds, the filter
\* as it was given and count 0; count is always the number of builds.
C18_TwoEmptyShapes ==
  \A s \in Slots :
    IsBuildAnswer(s) =>
      IF Delivered(s) = << >>
        THEN EnvelopeOf(s) =
               [isError |-> FALSE,
                text |-> Plain("No build messages found in the channel.")]
        ELSE /\ IsJson(EnvelopeOf(s))
             /\ ~EnvelopeOf(s).isError
             /\ EnvelopeOf(s).text.json.count = Len(BuildsOf(s))
             /\ FilterRemovesAll(s) =>
                  /\ BuildsOf(s) = << >>
                  /\ EnvelopeOf(s).text.json.count = 0
                  /\ EnvelopeOf(s).text.json.filter =
                       Some([workflow |-> Get(ArgsIn(s).workflow)])

C18_Witness ==
  \E s \in Slots :
    /\ IsBuildAnswer(s)
    /\ Len(Delivered(s)) > 1
    /\ ArgsIn(s).workflow = Some("zzz")
    /\ IsJson(EnvelopeOf(s))
    /\ BuildsOf(s) = << >>
    /\ EnvelopeOf(s).text.json.count = 0

=============================================================================
